---- MODULE Spec2Model ----
(***************************************************************************)
(* Model of obsidian-markdown-attributes: the annotation Processor         *)
(* (processor.ts: grammar, tokenizer, tree walk) and the CodeMirror live   *)
(* decoration engine of main.ts (build, compute, updateDecos, the state    *)
(* field's update).                                                        *)
(*                                                                         *)
(* Text is a sequence of one-character strings; positions inside a text    *)
(* are 1-based here and converted to the code's 0-based offsets where the  *)
(* code computes document offsets.                                         *)
(***************************************************************************)
EXTENDS Integers, Sequences, FiniteSets, TLC

\* ------------------------------------------------------------------------
\* Strings
\* ------------------------------------------------------------------------

MinOf(S) == CHOOSE x \in S : \A y \in S : x <= y

\* The characters [ ] and \s of the patterns, over the model's alphabet.
IsSpace(c) == c = " "
IsWhite(c) == c \in {" ", "\n"}
\* The three quote characters of the tokenizer.  The back-tick cannot be
\* written inside a TLA+ string, so the atom "bq" stands for it.
SQ == "'"
DQ == "\""
BQ == "bq"
IsQuote(c) == c \in {SQ, DQ, BQ}

\* First position >= k holding a character of stop, or Len(s) + 1.
FirstIn(s, k, stop) ==
    MinOf({j \in k..Len(s) : s[j] \in stop} \cup {Len(s) + 1})

\* First position >= k holding a character outside skip, or Len(s) + 1.
FirstNotIn(s, k, skip) ==
    MinOf({j \in k..Len(s) : s[j] \notin skip} \cup {Len(s) + 1})

\* String.prototype.indexOf, 1-based; 0 when pat does not occur.
IndexOf(s, pat) ==
    LET hits == {i \in 1..(Len(s) - Len(pat) + 1) :
                    SubSeq(s, i, i + Len(pat) - 1) = pat}
    IN IF hits = {} THEN 0 ELSE MinOf(hits)

\* A variant of the replacement that removes every occurrence, as
\* content.replaceAll(original, "") does.
RECURSIVE RemoveEvery(_, _)
RemoveEvery(content, original) ==
    LET i == IndexOf(content, original)
    IN IF i = 0 \/ original = <<>> THEN content
       ELSE SubSeq(content, 1, i - 1)
                \o RemoveEvery(SubSeq(content, i + Len(original),
                                      Len(content)), original)

\* content.replace(original, ""): removes the first occurrence only.
RemoveFirst(content, original) ==
    LET i == IndexOf(content, original)
    IN IF i = 0 THEN content
       ELSE SubSeq(content, 1, i - 1)
                \o SubSeq(content, i + Len(original), Len(content))

\* String.prototype.trim over the model's whitespace.
Trim(s) ==
    LET a == FirstNotIn(s, 1, {" ", "\n"})
        keep == {j \in 1..Len(s) : ~IsWhite(s[j])}
    IN IF keep = {} THEN <<>>
       ELSE SubSeq(s, a, CHOOSE j \in keep : \A k \in keep : k <= j)

\* ------------------------------------------------------------------------
\* Processor: the four patterns
\* ------------------------------------------------------------------------

\* No match: index 0 (text positions start at 1).
NoMatch == [index |-> 0, last |-> 0, group |-> <<>>]

\* Capture group 1 of \{\:?[ ]*([^\}\n ][^\}\n]*)[ ]*\} for the text between
\* the braces; <<>> when the pattern has no match for these braces.  The
\* optional colon is taken when something other than spaces follows it,
\* otherwise the colon itself starts the group; the greedy group keeps
\* trailing spaces.
ReGroup(inner) ==
    LET colon == inner # <<>> /\ inner[1] = ":"
        afterColon ==
            IF colon
            THEN SubSeq(inner, FirstNotIn(inner, 2, {" "}), Len(inner))
            ELSE <<>>
    IN IF afterColon # <<>> THEN afterColon
       ELSE IF colon THEN inner
       ELSE SubSeq(inner, FirstNotIn(inner, 1, {" "}), Len(inner))

\* The match of the brace pattern that starts exactly at position i.
BraceAt(s, i) ==
    IF i < 1 \/ i > Len(s) \/ s[i] # "{" THEN NoMatch
    ELSE LET e == FirstIn(s, i + 1, {"}", "\n"})
         IN IF e > Len(s) \/ s[e] # "}" THEN NoMatch
            ELSE LET g == ReGroup(SubSeq(s, i + 1, e - 1))
                 IN IF g = <<>> THEN NoMatch
                    ELSE [index |-> i, last |-> e, group |-> g]

\* BASE_RE: leftmost match at or after start.
BASE_RE(s, start) ==
    LET hits == {i \in start..Len(s) : BraceAt(s, i) # NoMatch}
    IN IF hits = {} THEN NoMatch ELSE BraceAt(s, MinOf(hits))

\* END_RE (flag m): the closing brace must end a line.
EndsLine(s, e) == e = Len(s) \/ s[e + 1] = "\n"

END_RE(s, start) ==
    LET hits == {i \in start..Len(s) :
                    /\ BraceAt(s, i) # NoMatch
                    /\ EndsLine(s, BraceAt(s, i).last)}
    IN IF hits = {} THEN NoMatch ELSE BraceAt(s, MinOf(hits))

\* BLOCK_RE: newline, spaces, the brace pattern, spaces, end of string.
\* The match (the code's `original`) runs from the newline to the end.
BlockAt(s, i) ==
    IF i < 1 \/ i > Len(s) \/ s[i] # "\n" THEN NoMatch
    ELSE LET m == BraceAt(s, FirstNotIn(s, i + 1, {" "}))
         IN IF m = NoMatch \/ FirstNotIn(s, m.last + 1, {" "}) <= Len(s)
            THEN NoMatch
            ELSE [index |-> i, last |-> Len(s), group |-> m.group]

BLOCK_RE(s) ==
    LET hits == {i \in 1..Len(s) : BlockAt(s, i) # NoMatch}
    IN IF hits = {} THEN NoMatch ELSE BlockAt(s, MinOf(hits))

\* match[0]
Matched(s, m) == SubSeq(s, m.index, m.last)

\* ------------------------------------------------------------------------
\* Processor.getAttrs and Processor.parseLine
\* ------------------------------------------------------------------------

\* null (the value of a flag attribute); no text equals it, since texts hold
\* one-character strings.
NULL == <<"null">>

CLASS == <<"c", "l", "a", "s", "s">>
TRUE_STR == <<"t", "r", "u", "e">>

Quotes(s) == SelectSeq(s, IsQuote)

\* The look-ahead (?=(?:[^'"`]*(['"`])[^'"`]*\1)*[^'"`]*$): what follows
\* holds an even number of quote characters and each odd one equals the next.
QuotesPaired(q) ==
    /\ Len(q) % 2 = 0
    /\ \A k \in 1..Len(q) : k % 2 = 1 => q[k] = q[k + 1]

Rest(str, p) == SubSeq(str, p + 1, Len(str))

SplitPoints(str) ==
    {p \in 1..Len(str) : IsWhite(str[p]) /\ QuotesPaired(Quotes(Rest(str, p)))}

\* The capture group of the split pattern, which String.split inserts after
\* each piece: the quote closing the last pair, or undefined (here <<>>, which
\* the filter drops like undefined) when no quote follows.
SplitCapture(str, p) ==
    LET q == Quotes(Rest(str, p))
    IN IF q = <<>> THEN <<>> ELSE <<q[Len(q)]>>

RECURSIVE SplitFrom(_, _)
SplitFrom(str, k) ==
    LET ps == {p \in SplitPoints(str) : p >= k}
    IN IF ps = {} THEN <<SubSeq(str, k, Len(str))>>
       ELSE LET p == MinOf(ps)
            IN <<SubSeq(str, k, p - 1), SplitCapture(str, p)>>
                   \o SplitFrom(str, p + 1)

\* .filter((t) => t && t !== '"' && t !== "'" && t.length)
KeepFragment(t) == t # <<>> /\ t # <<DQ>> /\ t # <<SQ>>

\* split, trim, filter: the `trys` of getAttrs.
Fragments(str) ==
    LET raw == SplitFrom(str, 1)
        trimmed == [k \in 1..Len(raw) |-> Trim(raw[k])]
    IN SelectSeq(trimmed, KeepFragment)

\* allowedKeyChars = /[^\t\n\f />"'=]/
AllowedKeyChar(c) == c \notin {"\t", "\n", "\f", " ", "/", ">", DQ, SQ, "="}

\* pair.split("=", 2): the first two pieces between "=" characters.
SplitKeyValue(pair) ==
    LET i == FirstIn(pair, 1, {"="})
        j == FirstIn(pair, i + 1, {"="})
    IN <<SubSeq(pair, 1, i - 1), SubSeq(pair, i + 1, j - 1)>>

\* One [key, value] pair for one fragment.
AttrOf(pair) ==
    LET i == FirstIn(pair, 1, {"="})
    IN IF pair[1] = "." THEN <<CLASS, Tail(pair)>>
       ELSE IF i <= Len(pair) /\ \E k \in 1..(i - 1) : AllowedKeyChar(pair[k])
       THEN SplitKeyValue(pair)
       ELSE <<pair, NULL>>

\* getAttrs.  It returns undefined when no fragment survives and otherwise
\* one pair per fragment, so it never returns an empty array: <<>> stands
\* for undefined.
getAttrs(str) ==
    LET trys == Fragments(str)
    IN [k \in 1..Len(trys) |-> AttrOf(trys[k])]

\* parseLine: every match of END_RE (flags gm) from position start on.
RECURSIVE ParseLineFrom(_, _)
ParseLineFrom(text, start) ==
    LET Items(m) ==
            IF m = NoMatch THEN <<>>
            ELSE <<[attributes |-> getAttrs(m.group), text |-> m.group]>>
                     \o ParseLineFrom(text, m.last + 1)
    IN Items(END_RE(text, start))

parseLine(text) == ParseLineFrom(text, 1)

\* ------------------------------------------------------------------------
\* The host element: class list and attributes
\* ------------------------------------------------------------------------

Letters ==
    {"a", "b", "c", "d", "e", "f", "g", "h", "i", "j", "k", "l", "m",
     "n", "o", "p", "q", "r", "s", "t", "u", "v", "w", "x", "y", "z"}

\* Element.setAttribute throws InvalidCharacterError unless the name is an
\* XML Name.
NameStartChar(c) == c \in Letters \cup {":", "_"}
NameChar(c) == NameStartChar(c) \/ c \in {".", "-"}
ValidAttrName(key) ==
    /\ key # <<>>
    /\ NameStartChar(key[1])
    /\ \A k \in 1..Len(key) : NameChar(key[k])

\* DOMTokenList.add throws on the empty token and on a token with whitespace.
ValidClassToken(t) == t # <<>> /\ \A k \in 1..Len(t) : ~IsWhite(t[k])

\* value.split(" ")
RECURSIVE SplitSpaces(_, _)
SplitSpaces(v, k) ==
    LET p == FirstIn(v, k, {" "})
    IN IF p > Len(v) THEN <<SubSeq(v, k, Len(v))>>
       ELSE <<SubSeq(v, k, p - 1)>> \o SplitSpaces(v, p + 1)

\* element.addClasses(tokens): classList.add token by token; ok is FALSE when
\* a token is refused (the tokens before it stay added).
RECURSIVE addClasses(_, _, _)
addClasses(element, tokens, k) ==
    IF k > Len(tokens) THEN [el |-> element, ok |-> TRUE]
    ELSE IF ~ValidClassToken(tokens[k]) THEN [el |-> element, ok |-> FALSE]
    ELSE addClasses([element EXCEPT !.cls = @ \cup {tokens[k]}], tokens, k + 1)

\* A variant of setAttr that removes an attribute that is already there, as
\* Element.toggleAttribute does.
setAttrToggle(element, key, value) ==
    IF ~ValidAttrName(key) THEN [el |-> element, ok |-> FALSE]
    ELSE [el |-> [element EXCEPT !.attrs =
                     [n \in (DOMAIN element.attrs \cup {key})
                               \ (DOMAIN element.attrs \cap {key}) |->
                         IF n = key THEN value ELSE element.attrs[n]]],
          ok |-> TRUE]

\* element.setAttr(key, value): the last write of a key wins.
setAttr(element, key, value) ==
    IF ~ValidAttrName(key) THEN [el |-> element, ok |-> FALSE]
    ELSE [el |-> [element EXCEPT !.attrs =
                     [n \in DOMAIN element.attrs \cup {key} |->
                         IF n = key THEN value ELSE element.attrs[n]]],
          ok |-> TRUE]

\* ------------------------------------------------------------------------
\* Processor.tryToReplace
\* ------------------------------------------------------------------------

NotDSQuote(c) == c \notin {DQ, SQ}

\* if (value) value = value.replace(/("|')/g, "")
StripQuotes(value) ==
    IF value = NULL \/ value = <<>> THEN value ELSE SelectSeq(value, NotDSQuote)

\* The body of the try block for one [key, value]: ok is FALSE when the host
\* throws (the catch returns the content unchanged).
ApplyOne(element, key, value) ==
    LET v == StripQuotes(value)
    IN IF key = CLASS
       THEN IF v = NULL THEN [el |-> element, ok |-> FALSE]
            ELSE addClasses(element, SplitSpaces(v, 1), 1)
       ELSE IF v = NULL \/ v = <<>> THEN setAttr(element, key, TRUE_STR)
       ELSE setAttr(element, key, v)

\* A variant of the loop of tryToReplace that goes on after a rejected
\* attribute.
RECURSIVE ApplyFromAll(_, _, _)
ApplyFromAll(element, attributes, k) ==
    IF k > Len(attributes) THEN [el |-> element, ok |-> TRUE]
    ELSE IF attributes[k][1] = <<>> THEN ApplyFromAll(element, attributes, k + 1)
    ELSE LET r == ApplyOne(element, attributes[k][1], attributes[k][2])
             more == ApplyFromAll(r.el, attributes, k + 1)
         IN [el |-> more.el, ok |-> r.ok /\ more.ok]

\* The for loop of tryToReplace from attribute k on.
RECURSIVE ApplyFrom(_, _, _)
ApplyFrom(element, attributes, k) ==
    IF k > Len(attributes) THEN [el |-> element, ok |-> TRUE]
    ELSE IF attributes[k][1] = <<>> THEN ApplyFrom(element, attributes, k + 1)
    ELSE LET r == ApplyOne(element, attributes[k][1], attributes[k][2])
         IN IF r.ok THEN ApplyFrom(r.el, attributes, k + 1)
            ELSE [el |-> r.el, ok |-> FALSE]

\* tryToReplace: the element after the call and the returned content.
tryToReplace(element, content, attributes, original) ==
    LET Returned(r) ==
            [element |-> r.el,
             content |-> IF r.ok THEN RemoveFirst(content, original)
                         ELSE content]
    IN IF attributes = <<>> THEN [element |-> element, content |-> content]
       ELSE Returned(ApplyFrom(element, attributes, 1))

\* ------------------------------------------------------------------------
\* The host document tree
\* ------------------------------------------------------------------------
\* dom maps an element id to [tag, cls, attrs, parent, kids]; parent 0 is
\* null.  A child node is [el |-> id, data |-> <<>>] for an element and
\* [el |-> 0, data |-> text] for a text node.

VARIABLES dom, stack, bindings, status, dom0, last

treeVars == <<dom, stack, bindings, status, dom0, last>>

\* The editor's state (described with the editor below).
VARIABLES doc, sel, vpLines, decoCache, heap, field, pending, active, lastTr

editorVars ==
    <<doc, sel, vpLines, decoCache, heap, field, pending, active, lastTr>>

\* One annotation taken through getAttrs, tryToReplace and Decoration.mark
\* (described with InitAttr below).
VARIABLES annText, annStep, annAttrs, host, hostOnce, applied, markAttrs

\* One call of build or of rangesInclude on its own (described with InitFn
\* below).
VARIABLE fnCall

attrVars ==
    <<annText, annStep, annAttrs, host, hostOnce, applied, markAttrs, fnCall>>

vars == <<treeVars, editorVars, attrVars>>

ElemIds == {1, 2, 3, 4}

TextNode(t) == [el |-> 0, data |-> t]
ElemNode(i) == [el |-> i, data |-> <<>>]

CALLOUT == <<"c", "a", "l", "l", "o", "u", "t">>
COLLAPSE ==
    <<"c", "o", "l", "l", "a", "p", "s", "e", "-",
      "i", "n", "d", "i", "c", "a", "t", "o", "r">>

hasClass(element, c) == c \in element.cls

\* getTopLevelText: the data of the text-node children, joined.
RECURSIVE JoinTexts(_, _)
JoinTexts(kids, k) ==
    IF k > Len(kids) THEN <<>>
    ELSE (IF kids[k].el = 0 THEN kids[k].data ELSE <<>>) \o JoinTexts(kids, k + 1)

getTopLevelText(d, el) == JoinTexts(d[el].kids, 1)

\* el.innerHTML (getter).  The model's alphabet has no character that HTML
\* escapes; the markup of element i is the pair of atoms OpenTag(i),
\* CloseTag(i), which equal no character of a text.
OpenTag(i) == <<"<1>", "<2>", "<3>", "<4>", "<5>">>[i]
CloseTag(i) == <<"</1>", "</2>", "</3>", "</4>", "</5>">>[i]

RECURSIVE SerializeKids(_, _, _)
SerializeKids(d, kids, k) ==
    IF k > Len(kids) THEN <<>>
    ELSE (IF kids[k].el = 0 THEN kids[k].data
          ELSE <<OpenTag(kids[k].el)>>
                   \o SerializeKids(d, d[kids[k].el].kids, 1)
                   \o <<CloseTag(kids[k].el)>>)
         \o SerializeKids(d, kids, k + 1)

innerHTML(d, el) == SerializeKids(d, d[el].kids, 1)

\* el.innerHTML = html (setter): the children are parsed again; a run of
\* characters becomes one text node, each element keeps its tag, classes
\* and attributes.
IsOpenTag(item) == \E i \in ElemIds : item = OpenTag(i)
ElemOfTag(item) == CHOOSE i \in ElemIds : item = OpenTag(i)

AppendChar(kids, c) ==
    IF kids # <<>> /\ kids[Len(kids)].el = 0
    THEN [kids EXCEPT ![Len(kids)].data = Append(@, c)]
    ELSE Append(kids, TextNode(<<c>>))

RECURSIVE ParseInto(_, _, _, _)
ParseInto(d, el, html, k) ==
    IF k > Len(html) \/ html[k] = CloseTag(el) THEN [dom |-> d, next |-> k + 1]
    ELSE IF IsOpenTag(html[k])
    THEN LET c == ElemOfTag(html[k])
             sub == ParseInto([d EXCEPT ![c].kids = <<>>], c, html, k + 1)
         IN ParseInto([sub.dom EXCEPT ![el].kids = Append(@, ElemNode(c))],
                      el, html, sub.next)
    ELSE ParseInto([d EXCEPT ![el].kids = AppendChar(@, html[k])],
                   el, html, k + 1)

setInnerHTML(d, el, html) ==
    ParseInto([d EXCEPT ![el].kids = <<>>], el, html, 1).dom

\* ------------------------------------------------------------------------
\* Processor.recurseAndParseElements
\* ------------------------------------------------------------------------

\* tryToReplace on element id target of d (0 is null: the first call on it
\* throws inside the try block, or the attributes are empty; either way the
\* content comes back unchanged).
ReplaceOn(d, target, content, attributes, original) ==
    LET Stored(r) ==
            [dom |-> [d EXCEPT ![target] = r.element], content |-> r.content]
    IN IF target = 0 THEN [dom |-> d, content |-> content]
       ELSE Stored(tryToReplace(d[target], content, attributes, original))

\* A block target that is never the parent.
BlockTargetSelf(d, el) == el

\* The block target: the parent for a list item, a child of a blockquote
\* and a callout, the element otherwise.
BlockTarget(d, el) ==
    IF \/ d[el].tag = "li"
       \/ (d[el].parent # 0 /\ d[d[el].parent].tag = "blockquote")
       \/ hasClass(d[el], CALLOUT)
    THEN d[el].parent
    ELSE el

\* The branch taken when BLOCK_RE matches the own text.
BlockBranch(d, el) ==
    LET text == getTopLevelText(d, el)
        Assigned(r, toAdd) ==
            [dom |-> setInnerHTML(r.dom, el, r.content),
             toAdd |-> <<toAdd>>,
             kind |-> "block",
             rerun |-> d[el].tag = "li"]
        Replaced(original, toAdd) ==
            Assigned(ReplaceOn(d, toAdd.element, innerHTML(d, el),
                               toAdd.attributes, original),
                     toAdd)
        Parsed(m, element) ==
            Replaced(Matched(text, m),
                     [element |-> element, attributes |-> getAttrs(m.group),
                      text |-> m.group])
    IN Parsed(BLOCK_RE(text), BlockTarget(d, el))

\* Array.from(el.childNodes).find(node => node.nodeType == TEXT_NODE &&
\* BASE_RE.test(text)): text is the whole own text, which matches in this
\* branch, so this is the first text node.
FirstTextNode(kids) == MinOf({k \in 1..Len(kids) : kids[k].el = 0})

\* The element child whose nextSibling is the text node, else el; then the
\* parent of a collapse indicator, then the parent of a line break.
InlineTarget(d, el) ==
    LET kids == d[el].kids
        t == FirstTextNode(kids)
        sibling == IF t > 1 /\ kids[t - 1].el # 0 THEN kids[t - 1].el ELSE el
        s1 == IF hasClass(d[sibling], COLLAPSE) THEN d[sibling].parent
              ELSE sibling
    IN IF s1 # 0 /\ d[s1].tag = "br" THEN d[s1].parent ELSE s1

\* The branch taken when only BASE_RE matches the own text.
InlineBranch(d, el) ==
    LET text == getTopLevelText(d, el)
        Assigned(r, t, toAdd) ==
            [dom |-> [r.dom EXCEPT ![el].kids[t].data = r.content],
             toAdd |-> <<toAdd>>,
             kind |-> "inline",
             rerun |-> FALSE]
        Replaced(original, t, toAdd) ==
            Assigned(ReplaceOn(d, toAdd.element, d[el].kids[t].data,
                               toAdd.attributes, original),
                     t, toAdd)
        Parsed(m, sibling) ==
            Replaced(Matched(text, m), FirstTextNode(d[el].kids),
                     [element |-> sibling, attributes |-> getAttrs(m.group),
                      text |-> m.group])
    IN Parsed(BASE_RE(text, 1), InlineTarget(d, el))

\* One invocation without the invocations it makes.
VisitOf(d, el) ==
    LET text == getTopLevelText(d, el)
    IN IF BLOCK_RE(text) # NoMatch THEN BlockBranch(d, el)
       ELSE IF BASE_RE(text, 1) # NoMatch THEN InlineBranch(d, el)
       ELSE [dom |-> d, toAdd |-> <<>>, kind |-> "none", rerun |-> FALSE]

\* The children the final loop recurses into, in order.
IsOpaque(element) == element.tag = "pre" \/ element.tag = "code"

RECURSIVE ChildCalls(_, _, _, _)
ChildCalls(d, kids, k, depth) ==
    IF k > Len(kids) THEN <<>>
    ELSE (IF kids[k].el # 0 /\ ~IsOpaque(d[kids[k].el])
          THEN <<[el |-> kids[k].el, depth |-> depth]>>
          ELSE <<>>)
         \o ChildCalls(d, kids, k + 1, depth)

\* Depth of recursion at which the engine's call stack is exhausted.
MaxDepth == 6

\* One invocation recurseAndParseElements(el).  stack holds the invocations
\* still to be made, in call order, each with its recursion depth; the
\* re-run of a list item comes before the loop over its children.
recurseAndParseElements ==
    /\ status = "running"
    /\ stack # <<>>
    /\ Head(stack).depth <= MaxDepth
    /\ \E v \in {VisitOf(dom, Head(stack).el)} :
          LET el == Head(stack).el
              depth == Head(stack).depth
              calls == (IF v.rerun THEN <<[el |-> el, depth |-> depth + 1]>>
                        ELSE <<>>)
                       \o ChildCalls(v.dom, v.dom[el].kids, 1, depth + 1)
          IN /\ dom' = v.dom
             /\ bindings' = bindings \o v.toAdd
             /\ stack' = calls \o Tail(stack)
             /\ status' = IF stack' = <<>> THEN "returned" ELSE "running"
             /\ last' = [el |-> el, kind |-> v.kind, before |-> dom]
    /\ UNCHANGED dom0
    /\ UNCHANGED editorVars
    /\ UNCHANGED attrVars

\* The recursion is deeper than the call stack allows: RangeError, the call
\* to parse does not return.
StackOverflow ==
    /\ status = "running"
    /\ stack # <<>>
    /\ Head(stack).depth > MaxDepth
    /\ status' = "overflow"
    /\ UNCHANGED <<dom, stack, bindings, dom0, last>>
    /\ UNCHANGED editorVars
    /\ UNCHANGED attrVars

\* ------------------------------------------------------------------------
\* The rendered sections handed to Processor.parse
\* ------------------------------------------------------------------------
\* The postprocessor calls Processor.parse(child) with the first element
\* child of the section's container: element 1 is the container, element 2
\* the element parsed.

Ann(inner) == <<"{">> \o inner \o <<"}">>
Trailer(inner) == <<"\n">> \o Ann(inner)

\* Inner texts: .a | .b | .a .b | k="v w" f | " | .a =b | =b .a
InnerA == <<".", "a">>
InnerB == <<".", "b">>
InnerAB == <<".", "a", " ", ".", "b">>
InnerKV == <<"k", "=", DQ, "v", " ", "w", DQ, " ", "f">>
InnerEmpty == <<DQ>>
InnerARej == <<".", "a", " ", "=", "b">>
InnerRejA == <<"=", "b", " ", ".", "a">>

Inners ==
    {InnerA, InnerB, InnerAB, InnerKV, InnerEmpty, InnerARej, InnerRejA}

\* Annotations as they are written: {inner} and the colon form {: inner}.
Annotations ==
    {Ann(i) : i \in Inners} \cup {Ann(<<":", " ">> \o InnerA)}

\* Text in front of an annotation: nothing, plain text, or text that holds
\* an inline annotation of its own.
Prefixes == {<<>>, <<"x", " ">>, <<"x", " ">> \o Ann(InnerB)}

Node(tag, cls, parent, kids) ==
    [tag |-> tag, cls |-> cls, attrs |-> <<>>, parent |-> parent,
     kids |-> kids]

\* A text node, when the text is not empty.
Texts(t) == IF t = <<>> THEN <<>> ELSE <<TextNode(t)>>

\* An element whose only child is one text node: prefix, then an annotation
\* on the same line or on a line of its own.
SingleTextTrees ==
    {<<Node(ctag, {}, 0, <<ElemNode(2)>>),
       Node(r[1], r[2], 1, <<TextNode(p \o sep \o a)>>)>> :
        ctag \in {"div", "blockquote"},
        r \in {<<"p", {}>>, <<"li", {}>>, <<"div", {CALLOUT}>>},
        p \in Prefixes, sep \in {<<>>, <<"\n">>}, a \in Annotations}

\* An element whose own text is split by a child element.
SplitTextTrees ==
    {<<Node("div", {}, 0, <<ElemNode(2)>>),
       Node(rtag, {}, 1, Texts(t1) \o <<ElemNode(3)>> \o Texts(t2)),
       Node(c[1], c[2], 2, Texts(t3))>> :
        rtag \in {"p", "li"},
        t1 \in {<<>>, <<"x">>, <<"x", "\n">>},
        c \in {<<"b", {}>>, <<"code", {}>>, <<"pre", {}>>, <<"br", {}>>,
               <<"span", {COLLAPSE}>>},
        t3 \in {<<>>, <<"y">>, <<"a">> \o Trailer(InnerA), Ann(InnerB)},
        t2 \in {Ann(InnerA), <<" ">> \o Ann(InnerA),
                <<"b">> \o Trailer(InnerA),
                <<" ">> \o Ann(InnerB) \o Trailer(InnerA)}}

\* A list or quote with two children.
ListTrees ==
    {<<Node("div", {}, 0, <<ElemNode(2)>>),
       Node(rtag, {}, 1, <<ElemNode(3), ElemNode(4)>>),
       Node(ctag, {}, 2, <<TextNode(<<"y">> \o sep \o a)>>),
       Node(ctag, {}, 2, <<TextNode(<<"z", " ">> \o Ann(InnerB))>>)>> :
        rtag \in {"ul", "blockquote"}, ctag \in {"li", "p"},
        sep \in {<<" ">>, <<"\n">>}, a \in Annotations}

Trees == SingleTextTrees \cup SplitTextTrees \cup ListTrees

NoEditor ==
    /\ doc = <<>>
    /\ sel = <<>>
    /\ vpLines = 0
    /\ decoCache = <<>>
    /\ heap = <<>>
    /\ field = {}
    /\ pending = <<>>
    /\ active = FALSE
    /\ lastTr = [kind |-> "none", build |-> "none",
                 entry |-> [mark |-> {}, replace |-> {}, sel |-> <<>>]]

\* No function is called on its own.
NoCall ==
    [fn |-> "none", d |-> <<>>, visible |-> 0, ranges |-> <<>>, from |-> 0,
     to |-> 0, done |-> FALSE, tokens |-> <<>>, included |-> FALSE]

\* No annotation is being taken through the pure functions.
NoAnnotation ==
    /\ annText = <<>>
    /\ annStep = "idle"
    /\ annAttrs = <<>>
    /\ host = Node("p", {}, 0, <<>>)
    /\ hostOnce = host
    /\ applied = 0
    /\ markAttrs = [made |-> FALSE, threw |-> FALSE, attributes |-> <<>>]

NoAttr == NoAnnotation /\ fnCall = NoCall

\* Processor.parse(child) is called on a rendered section.
InitTree ==
    /\ NoEditor
    /\ NoAttr
    /\ dom \in Trees
    /\ dom0 = dom
    /\ stack = <<[el |-> 2, depth |-> 1]>>
    /\ bindings = <<>>
    /\ status = "running"
    /\ last = [el |-> 0, kind |-> "none", before |-> dom]

NextTree ==
    \/ recurseAndParseElements
    \/ StackOverflow

SpecTree == InitTree /\ [][NextTree]_vars

\* ------------------------------------------------------------------------
\* The editor: document, syntax tokens, selection
\* ------------------------------------------------------------------------
\* doc is the sequence of lines of the buffer; the host tokenizer yields one
\* syntax token per line, [text, props], props being the token's class
\* string reduced to "code" (it holds hmd-codeblock), "fmt" (another class)
\* or "none" (no class property).  Lines are joined by one newline, and
\* offsets into the buffer start at 0.

RECURSIVE TokenFrom(_, _)
TokenFrom(d, k) ==
    IF k = 1 THEN 0 ELSE TokenFrom(d, k - 1) + Len(d[k - 1].text) + 1

TokenTo(d, k) == TokenFrom(d, k) + Len(d[k].text)

DocLength(d) == IF d = <<>> THEN 0 ELSE TokenTo(d, Len(d))

\* A variant of rangesInclude whose comparisons exclude the two ends.
rangesIncludeStrict(ranges, from, to) ==
    \E k \in 1..Len(ranges) :
        \/ (ranges[k].from > from /\ ranges[k].from < to)
        \/ (ranges[k].to > from /\ ranges[k].to < to)
        \/ (ranges[k].from < from /\ ranges[k].to > to)

\* rangesInclude(ranges, from, to)
rangesInclude(ranges, from, to) ==
    \E k \in 1..Len(ranges) :
        \/ (ranges[k].from >= from /\ ranges[k].from <= to)
        \/ (ranges[k].to >= from /\ ranges[k].to <= to)
        \/ (ranges[k].from < from /\ ranges[k].to > to)

\* ------------------------------------------------------------------------
\* asyncViewPlugin.build
\* ------------------------------------------------------------------------

\* new RegExp(`\\{\\s?${text}\s?\\}`): the template's "\s" is the letter s,
\* so the pattern is \{ \s? text s? \} with text read as a pattern.  Over
\* the model's alphabet "." is the wildcard, "(" makes the pattern invalid
\* (SyntaxError) and every other character stands for itself.
RegExpInvalid(text) == \E k \in 1..Len(text) : text[k] = "("

PatternOf(text) ==
    <<[kind |-> "lit", c |-> "{"], [kind |-> "optws", c |-> " "]>>
        \o [k \in 1..Len(text) |->
               IF text[k] = "." THEN [kind |-> "any", c |-> "."]
               ELSE [kind |-> "lit", c |-> text[k]]]
        \o <<[kind |-> "opts", c |-> "s"], [kind |-> "lit", c |-> "}"]>>

\* Backtracking match of pat from element k at position i of s: the position
\* after the match, or 0.  An optional element is tried taken first.
RECURSIVE ReMatch(_, _, _, _)
ReMatch(pat, k, s, i) ==
    IF k > Len(pat) THEN i
    ELSE LET here == i <= Len(s)
             step == ReMatch(pat, k + 1, s, i + 1)
             skip == ReMatch(pat, k + 1, s, i)
         IN CASE pat[k].kind = "lit" ->
                    IF here /\ s[i] = pat[k].c THEN step ELSE 0
              [] pat[k].kind = "any" ->
                    IF here /\ s[i] # "\n" THEN step ELSE 0
              [] pat[k].kind = "optws" ->
                    IF here /\ IsWhite(s[i]) /\ step # 0 THEN step ELSE skip
              [] pat[k].kind = "opts" ->
                    IF here /\ s[i] = "s" /\ step # 0 THEN step ELSE skip

\* original.match(pattern): leftmost match, or NoMatch (null).
ReSearch(text, original) ==
    LET pat == PatternOf(text)
        hits == {i \in 1..Len(original) : ReMatch(pat, 1, original, i) # 0}
    IN IF hits = {} THEN NoMatch
       ELSE [index |-> MinOf(hits),
             last |-> ReMatch(pat, 1, original, MinOf(hits)) - 1,
             group |-> <<>>]

NoLoc == [from |-> -1, to |-> -1]

\* A variant of the mark token whose value is the annotation with its
\* braces.
MarkTokenBraced(from, to, item) ==
    [type |-> "mark", from |-> from, to |-> to,
     value |-> <<"{">> \o item.text \o <<"}">>,
     attributes |-> item.attributes, loc |-> NoLoc]

MarkToken(from, to, item) ==
    [type |-> "mark", from |-> from, to |-> to, value |-> item.text,
     attributes |-> item.attributes, loc |-> NoLoc]

\* match.index is 0-based: the token starts one before the opening brace.
ReplaceToken(from, to, original, m) ==
    [type |-> "replace",
     from |-> from + (m.index - 1) - 1,
     to |-> from + (m.index - 1) + (m.last - m.index + 1),
     value |-> Matched(original, m),
     attributes |-> <<>>,
     loc |-> [from |-> from, to |-> to]]

\* The loop over the parsed items of one syntax token, from item k on.
RECURSIVE ItemTokens(_, _, _, _, _)
ItemTokens(parsed, k, from, to, original) ==
    IF k > Len(parsed) THEN [threw |-> FALSE, tokens |-> <<>>]
    ELSE LET item == parsed[k]
             m == ReSearch(item.text, original)
         IN IF RegExpInvalid(item.text) \/ m = NoMatch
            THEN [threw |-> TRUE, tokens |-> <<>>]
            ELSE LET more == ItemTokens(parsed, k + 1, from, to, original)
                 IN [threw |-> more.threw,
                     tokens |-> <<MarkToken(from, to, item),
                                  ReplaceToken(from, to, original, m)>>
                                    \o more.tokens]

\* The lines the model's documents are made of: an annotation, the same
\* annotation after other text, the colon form, an annotation that
\* tokenizes to no attribute, one whose inner text is no valid pattern, and
\* an annotation inside a code block.
LineTexts ==
    {<<"{", ".", "a", "}">>,
     <<"x", "{", ".", "a", "}">>,
     <<"{", ":", " ", ".", "a", "}">>,
     <<"{", DQ, "}">>,
     <<"{", "a", "(", "}">>}

Lines ==
    {[text |-> t, props |-> "fmt"] : t \in LineTexts}
        \cup {[text |-> <<"{", ".", "a", "}">>, props |-> "code"]}

\* The syntax tokens build is called on alone: every text with formatting
\* tags, inside a code block ("code") and without classification ("none").
BuildLines ==
    {[text |-> t, props |-> p] : t \in LineTexts, p \in {"fmt", "code", "none"}}

\* A variant of the enter callback that does not look at the token's
\* classification.
EnterAtAnyProps(original, props, from, to) ==
    IF END_RE(original, 1) = NoMatch
    THEN [threw |-> FALSE, tokens |-> <<>>]
    ELSE ItemTokens(parseLine(original), 1, from, to, original)

\* The enter callback for a syntax token from..to with text original.
EnterAt(original, props, from, to) ==
    IF props = "none" \/ props = "code" \/ END_RE(original, 1) = NoMatch
    THEN [threw |-> FALSE, tokens |-> <<>>]
    ELSE ItemTokens(parseLine(original), 1, from, to, original)

\* The callback's result for each line placed at offset 0, evaluated once;
\* at another offset every position of the result moves with the line.
EnterMemo ==
    [l \in BuildLines |-> EnterAt(l.text, l.props, 0, Len(l.text))]

ShiftToken(t, by) ==
    [t EXCEPT !.from = @ + by, !.to = @ + by,
              !.loc = IF @ = NoLoc THEN @
                      ELSE [from |-> @.from + by, to |-> @.to + by]]

\* The enter callback for syntax token k of d.
EnterTokens(d, k) ==
    LET Shifted(e) ==
            [threw |-> e.threw,
             tokens |-> [i \in 1..Len(e.tokens) |->
                            ShiftToken(e.tokens[i], TokenFrom(d, k))]]
    IN Shifted(EnterMemo[d[k]])

\* build up to the call of updateDecos: the syntax tokens of the visible
\* lines from k on.  threw: an exception left build, nothing was passed on.
RECURSIVE BuildFrom(_, _, _)
BuildFrom(d, visible, k) ==
    IF k > Len(d) \/ k > visible THEN [threw |-> FALSE, tokens |-> <<>>]
    ELSE LET Join(one, more) ==
                 IF one.threw THEN [threw |-> TRUE, tokens |-> <<>>]
                 ELSE [threw |-> more.threw,
                       tokens |-> one.tokens \o more.tokens]
         IN Join(EnterTokens(d, k), BuildFrom(d, visible, k + 1))

build(d, visible) == BuildFrom(d, visible, 1)

\* ------------------------------------------------------------------------
\* StatefulDecorationSet.compute and updateDecos
\* ------------------------------------------------------------------------
\* heap holds the Decoration objects allocated so far; a decoration is
\* named by its index.  decoCache maps a value string to a decoration.
\* A range of a decoration set is [from, to, deco]; value and span record
\* the token it was pushed for (its value string and its annotated span)
\* and are read by the properties only.

\* A lookup that never finds an entry.
CacheGetNever(cache, value) == 0

\* this.decoCache[token.value]; 0 when there is no entry.
CacheGet(cache, value) == IF value \in DOMAIN cache THEN cache[value] ELSE 0

CachePut(cache, value, id) ==
    [v \in DOMAIN cache \cup {value} |-> IF v = value THEN id ELSE cache[v]]

\* Object.fromEntries(token.attributes): one property per key, holding the
\* value of the last pair with that key.
FromEntries(attributes) ==
    LET keys == {attributes[k][1] : k \in 1..Len(attributes)}
        LastOf(key) ==
            CHOOSE k \in 1..Len(attributes) :
                /\ attributes[k][1] = key
                /\ \A j \in (k + 1)..Len(attributes) : attributes[j][1] # key
    IN [key \in keys |-> attributes[LastOf(key)][2]]

\* Decoration.mark({attributes}) / Decoration.replace({inclusive, loc}).
NewDeco(token) ==
    [type |-> token.type, loc |-> token.loc,
     attributes |-> IF token.type = "mark" THEN FromEntries(token.attributes)
                    ELSE <<>>,
     key |-> token.value]

RangeOf(token, id) ==
    [from |-> token.from, to |-> token.to, deco |-> id,
     value |-> token.value,
     span |-> IF token.type = "replace" THEN token.loc
              ELSE [from |-> token.from, to |-> token.to]]

\* The for loop of compute from token k on.  threw: Object.fromEntries of
\* undefined attributes (the promise is rejected; entries cached before the
\* throw stay cached).
RECURSIVE ComputeFrom(_, _, _, _)
ComputeFrom(tokens, k, cache, hp) ==
    IF k > Len(tokens)
    THEN [threw |-> FALSE, cache |-> cache, heap |-> hp,
          mark |-> {}, replace |-> {}]
    ELSE LET token == tokens[k]
             cached == CacheGet(cache, token.value)
         IN IF cached = 0 /\ token.type = "mark" /\ token.attributes = <<>>
            THEN [threw |-> TRUE, cache |-> cache, heap |-> hp,
                  mark |-> {}, replace |-> {}]
            ELSE LET id == IF cached # 0 THEN cached ELSE Len(hp) + 1
                     hp2 == IF cached # 0 THEN hp
                            ELSE Append(hp, NewDeco(token))
                     cache2 == IF cached # 0 THEN cache
                               ELSE CachePut(cache, token.value, id)
                     more == ComputeFrom(tokens, k + 1, cache2, hp2)
                     rng == RangeOf(token, id)
                 IN [threw |-> more.threw, cache |-> more.cache,
                     heap |-> more.heap,
                     mark |-> IF token.type = "mark"
                              THEN more.mark \cup {rng} ELSE more.mark,
                     replace |-> IF token.type = "mark" THEN more.replace
                                 ELSE more.replace \cup {rng}]

compute(tokens, cache, hp) == ComputeFrom(tokens, 1, cache, hp)

\* ------------------------------------------------------------------------
\* defineStatefulDecoration: the state field
\* ------------------------------------------------------------------------

NoChange == [at |-> 0, del |-> 0, ins |-> 0]

\* ChangeSet.mapPos for the change "at position at, del characters are
\* replaced by ins characters".
mapPos(pos, assoc, ch) ==
    IF ch = NoChange THEN pos
    ELSE IF ch.at > pos THEN pos
    ELSE IF \/ ch.at + ch.del > pos
            \/ (ch.at + ch.del = pos /\ assoc < 0 /\ ch.del = 0)
    THEN (IF pos = ch.at \/ assoc < 0 THEN ch.at ELSE ch.at + ch.ins)
    ELSE pos - ch.del + ch.ins

\* deco.map(tr.changes): an inclusive replace decoration grows with text
\* inserted at its ends, a mark decoration does not and is dropped when it
\* becomes empty.
MapRange(r, hp, ch) ==
    LET inclusive == hp[r.deco].type = "replace"
    IN [r EXCEPT
           !.from = mapPos(r.from, IF inclusive THEN -1 ELSE 1, ch),
           !.to = mapPos(r.to, IF inclusive THEN 1 ELSE -1, ch),
           !.span = [from |-> mapPos(r.span.from, 1, ch),
                     to |-> mapPos(r.span.to, -1, ch)]]

MapSet(deco, hp, ch) ==
    {MapRange(r, hp, ch) : r \in {x \in deco :
        hp[x.deco].type = "replace"
            \/ mapPos(x.from, 1, ch) < mapPos(x.to, -1, ch)}}

\* The filter of the replace effect: decoration.spec.loc against the new
\* selection.
KeptBySelection(r, hp, newSelection) ==
    ~rangesInclude(newSelection, hp[r.deco].loc.from, hp[r.deco].loc.to)

\* One step of tr.effects.reduce.
EffectStep(acc, effect, hp, newSelection) ==
    IF effect.is = "update" THEN effect.value
    ELSE IF effect.is = "replace"
    THEN {r \in effect.value : KeptBySelection(r, hp, newSelection)}
    ELSE acc

RECURSIVE ReduceEffects(_, _, _, _, _)
ReduceEffects(acc, effects, k, hp, newSelection) ==
    IF k > Len(effects) THEN acc
    ELSE ReduceEffects(EffectStep(acc, effects[k], hp, newSelection),
                       effects, k + 1, hp, newSelection)

\* A variant of field.update that also drops, in every transaction, the
\* ranges whose annotated span the new selection includes.
fieldUpdateFiltered(deco, tr, hp) ==
    {r \in ReduceEffects(MapSet(deco, hp, tr.changes), tr.effects, 1, hp,
                         tr.newSelection) :
        ~rangesInclude(tr.newSelection, r.span.from, r.span.to)}

\* field.update(deco, tr)
fieldUpdate(deco, tr, hp) ==
    ReduceEffects(MapSet(deco, hp, tr.changes), tr.effects, 1, hp,
                  tr.newSelection)

\* SelectionRange.map
MapSelection(ranges, ch) ==
    [k \in 1..Len(ranges) |->
        IF ranges[k].from = ranges[k].to
        THEN [from |-> mapPos(ranges[k].from, -1, ch),
              to |-> mapPos(ranges[k].from, -1, ch)]
        ELSE [from |-> mapPos(ranges[k].from, 1, ch),
              to |-> mapPos(ranges[k].to, -1, ch)]]

\* ------------------------------------------------------------------------
\* The view plugin and the deferred dispatch
\* ------------------------------------------------------------------------

\* Rebuild results whose dispatch may be outstanding at once.
MaxPending == 2

\* Characters of the buffer.
MaxDocLength == 9

EmptyCache == <<>>

NoEntry == [mark |-> {}, replace |-> {}, sel |-> <<>>]

\* build(view) with its call of updateDecos up to the await.  An exception
\* that leaves build leaves the plugin's constructor or update method: the
\* editor unloads the plugin.  A rejected compute dispatches nothing.
\* Otherwise the dispatch of the two effects is queued (entry.sel records
\* the selection at the time of the build, for the properties).
RunBuild(d, s, visible, cache, hp, pend) ==
    LET UpdateDecos(c) ==
            IF c.threw
            THEN [active |-> TRUE, cache |-> c.cache, heap |-> c.heap,
                  pending |-> pend, outcome |-> "compute threw"]
            ELSE [active |-> TRUE, cache |-> c.cache, heap |-> c.heap,
                  pending |-> Append(pend, [mark |-> c.mark,
                                            replace |-> c.replace,
                                            sel |-> s]),
                  outcome |-> "dispatch"]
        Built(b) ==
            IF b.threw
            THEN [active |-> FALSE, cache |-> cache, heap |-> hp,
                  pending |-> pend, outcome |-> "build threw"]
            ELSE UpdateDecos(compute(b.tokens, cache, hp))
    IN Built(build(d, visible))

\* A transaction of the user or the host: changes ch lead to document d2,
\* selection s2 and v2 visible lines.  The field maps its decorations; the
\* plugin's update then sees docChanged, viewportChanged or selectionSet
\* and builds.
UserTransaction(d2, s2, v2, ch) ==
    /\ Len(pending) < MaxPending
    /\ doc' = d2
    /\ sel' = s2
    /\ vpLines' = v2
    /\ field' = fieldUpdate(field, [changes |-> ch, effects |-> <<>>,
                                    newSelection |-> s2], heap)
    /\ IF active
       THEN \E r \in {RunBuild(d2, s2, v2, decoCache, heap, pending)} :
               /\ active' = r.active
               /\ decoCache' = r.cache
               /\ heap' = r.heap
               /\ pending' = r.pending
               /\ lastTr' = [kind |-> "user", build |-> r.outcome,
                             entry |-> NoEntry]
       ELSE /\ UNCHANGED <<active, decoCache, heap, pending>>
            /\ lastTr' = [kind |-> "user", build |-> "none",
                          entry |-> NoEntry]
    /\ UNCHANGED treeVars
    /\ UNCHANGED attrVars

\* Selections: a caret inside a line or at the end of the buffer, or
\* everything selected.
Selections(d) ==
    {<<[from |-> a, to |-> a]>> :
        a \in {TokenFrom(d, k) + 2 : k \in 1..Len(d)} \cup {DocLength(d)}}
        \cup {<<[from |-> 0, to |-> DocLength(d)]>>}

InsertLine ==
    \E line \in Lines :
        /\ DocLength(<<line>> \o doc) <= MaxDocLength
        /\ LET ch == [at |-> 0, del |-> 0, ins |-> Len(line.text) + 1]
           IN UserTransaction(<<line>> \o doc, MapSelection(sel, ch),
                              Len(doc) + 1, ch)

DeleteLine ==
    /\ Len(doc) >= 2
    /\ LET ch == [at |-> 0, del |-> Len(doc[1].text) + 1, ins |-> 0]
       IN UserTransaction(Tail(doc), MapSelection(sel, ch), Len(doc) - 1, ch)

Select ==
    \E s \in Selections(doc) :
        /\ s # sel
        /\ UserTransaction(doc, s, vpLines, NoChange)

Scroll ==
    \E v \in 1..Len(doc) :
        /\ v # vpLines
        /\ UserTransaction(doc, sel, v, NoChange)

\* The continuation of updateDecos after the await: the oldest queued
\* dispatch.  Its transaction carries the two effects and nothing else, so
\* the plugin's update does not build.
Dispatch ==
    /\ pending # <<>>
    /\ LET e == Head(pending)
           tr == [changes |-> NoChange,
                  effects |-> <<[is |-> "update", value |-> e.mark],
                                [is |-> "replace", value |-> e.replace]>>,
                  newSelection |-> sel]
       IN /\ field' = fieldUpdate(field, tr, heap)
          /\ lastTr' = [kind |-> "rebuild", build |-> "none", entry |-> e]
    /\ pending' = Tail(pending)
    /\ UNCHANGED <<doc, sel, vpLines, decoCache, heap, active>>
    /\ UNCHANGED treeVars
    /\ UNCHANGED attrVars

\* The documents a view is opened on: one or two lines.
Docs ==
    {d \in {<<l>> : l \in Lines} \cup {<<l1, l2>> : l1 \in Lines, l2 \in Lines} :
        DocLength(d) <= MaxDocLength}

NoTree ==
    /\ dom = <<>>
    /\ dom0 = <<>>
    /\ stack = <<>>
    /\ bindings = <<>>
    /\ status = "idle"
    /\ last = [el |-> 0, kind |-> "none", before |-> <<>>]

\* The editor after the view and the plugin are constructed: the field is
\* Decoration.none and the constructor has run build.
Init ==
    /\ NoTree
    /\ NoAttr
    /\ \E d \in Docs : \E s \in Selections(d) :
          \E r \in {RunBuild(d, s, Len(d), EmptyCache, <<>>, <<>>)} :
             /\ doc = d
             /\ sel = s
             /\ vpLines = Len(d)
             /\ field = {}
             /\ active = r.active
             /\ decoCache = r.cache
             /\ heap = r.heap
             /\ pending = r.pending
             /\ lastTr = [kind |-> "init", build |-> r.outcome,
                          entry |-> NoEntry]

Next ==
    \/ InsertLine
    \/ DeleteLine
    \/ Select
    \/ Scroll
    \/ Dispatch

Spec == Init /\ [][Next]_vars

\* ------------------------------------------------------------------------
\* One annotation through getAttrs, tryToReplace and Decoration.mark
\* ------------------------------------------------------------------------
\* The text between the braces of one annotation is given to getAttrs; its
\* result is then given to tryToReplace on an element that starts without
\* class and attribute (again on the same element, up to MaxApply calls) and
\* to Decoration.mark, which builds the attributes of the editor's mark.

\* k=QvQ with an internal space, for a quote character q.
UnitKV(q) == <<"k", "=", q, "v", " ", "w", q>>

\* Whitespace-separated units: classes, a flag, key/value pairs without
\* quotes, with each kind of quote, with an apostrophe inside double quotes
\* and with a second "=", a lone quote and a unit without key.
AttrUnits ==
    {InnerA, InnerB, <<"f">>, <<"k", "=", "v">>,
     UnitKV(DQ), UnitKV(SQ), UnitKV(BQ),
     <<"k", "=", DQ, "v", SQ, "w", DQ>>,
     <<"a", "=", "b", "=", "c">>, <<DQ>>, <<"=", "b">>}

\* Inner texts: one unit, two units, two units two spaces apart, nothing.
AttrInners ==
    AttrUnits
        \cup {u1 \o <<" ">> \o u2 : u1 \in AttrUnits, u2 \in AttrUnits}
        \cup {InnerA \o <<" ", " ">> \o InnerB, <<>>}

MaxApply == 2

InitAttr ==
    /\ NoTree
    /\ NoEditor
    /\ annText \in AttrInners
    /\ annStep = "text"
    /\ annAttrs = <<>>
    /\ host = Node("p", {}, 0, <<>>)
    /\ hostOnce = host
    /\ applied = 0
    /\ markAttrs = [made |-> FALSE, threw |-> FALSE, attributes |-> <<>>]
    /\ fnCall = NoCall

\* getAttrs(str)
CallGetAttrs ==
    /\ annStep = "text"
    /\ annAttrs' = getAttrs(annText)
    /\ annStep' = "tokens"
    /\ UNCHANGED <<annText, host, hostOnce, applied, markAttrs>>
    /\ UNCHANGED <<treeVars, editorVars, fnCall>>

\* tryToReplace(element, content, attributes, original) on the element the
\* earlier calls left; hostOnce keeps the element as the first call left it.
CallTryToReplace ==
    /\ annStep = "tokens"
    /\ applied < MaxApply
    /\ \E r \in {tryToReplace(host, Ann(annText), annAttrs, Ann(annText))} :
          /\ host' = r.element
          /\ hostOnce' = IF applied = 0 THEN r.element ELSE hostOnce
    /\ applied' = applied + 1
    /\ UNCHANGED <<annText, annStep, annAttrs, markAttrs>>
    /\ UNCHANGED <<treeVars, editorVars, fnCall>>

\* Decoration.mark({attributes: Object.fromEntries(token.attributes)}) for
\* the mark token of the annotation; Object.fromEntries throws on undefined.
CallMark ==
    /\ annStep = "tokens"
    /\ ~markAttrs.made
    /\ markAttrs' =
          IF annAttrs = <<>>
          THEN [made |-> TRUE, threw |-> TRUE, attributes |-> <<>>]
          ELSE [made |-> TRUE, threw |-> FALSE,
                attributes |->
                    NewDeco(MarkToken(0, Len(Ann(annText)),
                                      [text |-> annText,
                                       attributes |-> annAttrs])).attributes]
    /\ UNCHANGED <<annText, annStep, annAttrs, host, hostOnce, applied>>
    /\ UNCHANGED <<treeVars, editorVars, fnCall>>

NextAttr ==
    \/ CallGetAttrs
    \/ CallTryToReplace
    \/ CallMark

SpecAttr == InitAttr /\ [][NextAttr]_vars

\* ------------------------------------------------------------------------
\* One call of build or of rangesInclude
\* ------------------------------------------------------------------------
\* build is called on a view of one or two syntax tokens of any
\* classification of which the first `visible` are in the visible ranges;
\* rangesInclude is called on up to two selection ranges and a span, all
\* within 0..MaxPos.

MaxPos == 3

Intervals ==
    {r \in [from : 0..MaxPos, to : 0..MaxPos] : r.from <= r.to}

RangeLists ==
    {<<>>} \cup {<<r>> : r \in Intervals}
           \cup {<<r1, r2>> : r1 \in Intervals, r2 \in Intervals}

BuildDocs ==
    {<<l>> : l \in BuildLines}
        \cup {<<l1, l2>> : l1 \in BuildLines, l2 \in BuildLines}

InitFn ==
    /\ NoTree
    /\ NoEditor
    /\ NoAnnotation
    /\ \/ \E d \in BuildDocs : \E v \in 1..Len(d) :
             fnCall = [NoCall EXCEPT !.fn = "build", !.d = d, !.visible = v]
       \/ \E rs \in RangeLists : \E span \in Intervals :
             fnCall = [NoCall EXCEPT !.fn = "rangesInclude", !.ranges = rs,
                                     !.from = span.from, !.to = span.to]

\* build(view) up to the call of updateDecos.
CallBuild ==
    /\ fnCall.fn = "build"
    /\ ~fnCall.done
    /\ fnCall' = [fnCall EXCEPT !.done = TRUE,
                                !.tokens = build(fnCall.d, fnCall.visible)]
    /\ UNCHANGED <<treeVars, editorVars>>
    /\ UNCHANGED <<annText, annStep, annAttrs, host, hostOnce, applied,
                   markAttrs>>

\* rangesInclude(ranges, from, to)
CallRangesInclude ==
    /\ fnCall.fn = "rangesInclude"
    /\ ~fnCall.done
    /\ fnCall' = [fnCall EXCEPT
                     !.done = TRUE,
                     !.included = rangesInclude(fnCall.ranges, fnCall.from,
                                                fnCall.to)]
    /\ UNCHANGED <<treeVars, editorVars>>
    /\ UNCHANGED <<annText, annStep, annAttrs, host, hostOnce, applied,
                   markAttrs>>

NextFn ==
    \/ CallBuild
    \/ CallRangesInclude

SpecFn == InitFn /\ [][NextFn]_vars

\* ------------------------------------------------------------------------
\* Properties of the tree walk (SpecTree)
\* ------------------------------------------------------------------------

\* The binding pushed by the invocation recorded in last.
LastBinding == bindings[Len(bindings)]

\* The class tokens an attribute adds, and whether the host takes it.
ClassTokens(kv) ==
    IF kv[1] # CLASS \/ kv[2] = NULL THEN {}
    ELSE LET tokens == SplitSpaces(StripQuotes(kv[2]), 1)
         IN {tokens[k] : k \in 1..Len(tokens)}

HostAccepts(kv) ==
    IF kv[1] = CLASS
    THEN kv[2] # NULL /\ \A t \in ClassTokens(kv) : ValidClassToken(t)
    ELSE ValidAttrName(kv[1])

\* The attribute is on the element.
AttrPresent(element, kv) ==
    IF kv[1] = CLASS THEN ClassTokens(kv) \subseteq element.cls
    ELSE kv[1] \in DOMAIN element.attrs

\* Index of the first attribute the host rejects, or Len + 1.
FirstRejected(attributes) ==
    MinOf({k \in 1..Len(attributes) : ~HostAccepts(attributes[k])}
              \cup {Len(attributes) + 1})

\* Node.textContent
RECURSIVE TextOfKids(_, _, _)
TextOfKids(d, kids, k) ==
    IF k > Len(kids) THEN <<>>
    ELSE (IF kids[k].el = 0 THEN kids[k].data
          ELSE TextOfKids(d, d[kids[k].el].kids, 1))
         \o TextOfKids(d, kids, k + 1)

textContent(d, el) == TextOfKids(d, d[el].kids, 1)

\* The classes written in the annotations of the menu.
ExpectedClasses(a) ==
    CASE a = Ann(InnerA) -> {<<"a">>}
      [] a = Ann(<<":", " ">> \o InnerA) -> {<<"a">>}
      [] a = Ann(InnerB) -> {<<"b">>}
      [] a = Ann(InnerAB) -> {<<"a">>, <<"b">>}
      [] OTHER -> {}

\* C4 (as claimed): for an element whose only child is one text node
\* prefix + annotation, without newline and with no attribute the host
\* rejects, once parse has returned the element carries every class of the
\* annotation, its text is the prefix alone, and the text no longer matches
\* the annotation grammar.
C4_StripsSingleText ==
    status = "returned" =>
        \A p \in {<<>>, <<"x", " ">>} :
            \A a \in Annotations \ {Ann(InnerARej), Ann(InnerRejA)} :
                (Len(dom0) = 2 /\ dom0[2].kids = <<TextNode(p \o a)>>) =>
                    /\ ExpectedClasses(a) \subseteq dom[2].cls
                    /\ textContent(dom, 2) = p
                    /\ BASE_RE(textContent(dom, 2), 1) = NoMatch

\* The element the claim names as the target of a block trailer.
ClaimedBlockTarget(d, el) ==
    IF \/ d[el].tag = "li"
       \/ (d[el].parent # 0 /\ d[d[el].parent].tag = "blockquote")
       \/ CALLOUT \in d[el].cls
    THEN d[el].parent
    ELSE el

\* C5: after an invocation that took the block branch, the attributes the
\* host accepted (up to the first rejected one) are on the parent when the
\* element is a list item, a child of a blockquote or a callout, and on the
\* element otherwise; when retargeted, the element's own classes and
\* attributes are what they were before the invocation.
C5_BlockTarget ==
    last.kind = "block" =>
        LET before == last.before
            target == ClaimedBlockTarget(before, last.el)
            attributes == LastBinding.attributes
        IN /\ LastBinding.element = target
           /\ \A k \in 1..(FirstRejected(attributes) - 1) :
                 AttrPresent(dom[target], attributes[k])
           /\ target # last.el =>
                 /\ dom[last.el].cls = before[last.el].cls
                 /\ dom[last.el].attrs = before[last.el].attrs

\* C5 witness: the block trailer of a list item, all of its attributes
\* accepted, changed the classes of the item's parent.
C5_Witness ==
    /\ last.kind = "block"
    /\ LastBinding.attributes # <<>>
    /\ FirstRejected(LastBinding.attributes) > Len(LastBinding.attributes)
    /\ last.before[last.el].tag = "li"
    /\ LastBinding.element = last.before[last.el].parent
    /\ dom[LastBinding.element].cls # last.before[LastBinding.element].cls

\* A block trailer of a list item that is applied and stripped, with an
\* inline annotation left in the item's own text: the texts involved.
\* block is the trailer's match in the own text, inline the match of the
\* inline grammar in what remains.
LiCase(d, el) ==
    LET text == getTopLevelText(d, el)
        block == BLOCK_RE(text)
        remaining == RemoveFirst(text, Matched(text, block))
        inline == BASE_RE(remaining, 1)
        none == [applies |-> FALSE, blockText |-> <<>>, inlineText |-> <<>>,
                 stripped |-> <<>>]
    IN IF d[el].tag # "li" \/ block = NoMatch THEN none
       ELSE IF inline = NoMatch THEN none
       ELSE [applies |->
                 /\ getAttrs(block.group) # <<>>
                 /\ FirstRejected(getAttrs(block.group))
                        > Len(getAttrs(block.group))
                 /\ IndexOf(innerHTML(d, el), Matched(text, block)) # 0
                 /\ BLOCK_RE(remaining) = NoMatch
                 /\ getAttrs(inline.group) # <<>>
                 /\ FirstRejected(getAttrs(inline.group))
                        > Len(getAttrs(inline.group)),
             blockText |-> block.group,
             inlineText |-> inline.group,
             stripped |-> RemoveFirst(remaining, Matched(remaining, inline))]

\* C6 (as claimed): when a list item's block trailer is applied and
\* stripped and an inline annotation remains in the item's own text, then
\* once parse has returned the inline annotation is stripped from the own
\* text as well, and the bindings hold the block binding before the inline
\* binding.
C6_ListItemRescan ==
    status = "returned" =>
        \A el \in DOMAIN dom0 :
            LiCase(dom0, el).applies =>
                /\ getTopLevelText(dom, el) = LiCase(dom0, el).stripped
                /\ \E i, j \in 1..Len(bindings) :
                      /\ i < j
                      /\ bindings[i].text = LiCase(dom0, el).blockText
                      /\ bindings[j].text = LiCase(dom0, el).inlineText

\* C7 (as claimed): every pre or code element below the parsed element
\* keeps its text content, classes and attributes.
C7_CodeUntouched ==
    \A el \in DOMAIN dom0 :
        (el > 2 /\ IsOpaque(dom0[el])) =>
            /\ textContent(dom, el) = textContent(dom0, el)
            /\ dom[el].cls = dom0[el].cls
            /\ dom[el].attrs = dom0[el].attrs

\* C8 (as claimed): the walk ends by returning; it never exhausts the call
\* stack.
C8_Terminates == status # "overflow"

\* C9: after an invocation whose match holds an attribute the host rejects,
\* the attributes before the first rejected one are on the target, the
\* target has no class and no attribute beyond those it had and those of
\* the attributes up to the rejected one, and the element's content is what
\* it was before the invocation.
C9_RejectionStops ==
    (last.kind # "none" /\ LastBinding.element # 0) =>
        LET before == last.before
            target == LastBinding.element
            attributes == LastBinding.attributes
            k == FirstRejected(attributes)
        IN k <= Len(attributes) =>
              /\ \A j \in 1..(k - 1) : AttrPresent(dom[target], attributes[j])
              /\ dom[target].cls \subseteq
                     before[target].cls
                         \cup UNION {ClassTokens(attributes[j]) : j \in 1..k}
              /\ DOMAIN dom[target].attrs \subseteq
                     DOMAIN before[target].attrs
                         \cup {attributes[j][1] : j \in 1..(k - 1)}
              /\ innerHTML(dom, last.el) = innerHTML(before, last.el)

\* C9 witness: the second attribute of a match was rejected after the first
\* had been applied.
C9_Witness ==
    /\ last.kind # "none"
    /\ LastBinding.element # 0
    /\ FirstRejected(LastBinding.attributes) = 2
    /\ Len(LastBinding.attributes) = 2
    /\ AttrPresent(dom[LastBinding.element], LastBinding.attributes[1])
    /\ ~AttrPresent(last.before[LastBinding.element],
                    LastBinding.attributes[1])

\* ------------------------------------------------------------------------
\* Properties of the live decoration engine (Spec)
\* ------------------------------------------------------------------------

\* A selection range has an endpoint inside the span (bounds inclusive) or
\* covers the span.
SelectionTouches(ranges, span) ==
    \E k \in 1..Len(ranges) :
        \/ (span.from <= ranges[k].from /\ ranges[k].from <= span.to)
        \/ (span.from <= ranges[k].to /\ ranges[k].to <= span.to)
        \/ (ranges[k].from <= span.from /\ span.to <= ranges[k].to)

IsReplace(r) == heap[r.deco].type = "replace"

\* C1 (as claimed): in the state committed by a rebuild's dispatch, no
\* replace decoration is present whose annotated span (the span of the token
\* it was built for) is touched by the current selection.
C1_NoHiddenUnderCaret ==
    lastTr.kind = "rebuild" =>
        \A r \in field : IsReplace(r) => ~SelectionTouches(sel, r.span)

\* C2 (as claimed): when a rebuild produced a replace decoration for an
\* annotation whose span no selection range touched when it was built (nor
\* touches when it is committed), the committed set holds a replace
\* decoration for that span.
C2_HiddenWhenCaretOutside ==
    lastTr.kind = "rebuild" =>
        \A r \in lastTr.entry.replace :
            (/\ ~SelectionTouches(lastTr.entry.sel, r.span)
             /\ ~SelectionTouches(sel, r.span))
                => \E h \in field : IsReplace(h) /\ h.span = r.span

\* Every range a rebuild has produced and that is still held somewhere.
AllRanges ==
    field
        \cup UNION {pending[k].mark \cup pending[k].replace :
                       k \in 1..Len(pending)}
        \cup lastTr.entry.mark \cup lastTr.entry.replace

\* C3: no two decoration objects were allocated for the same value string,
\* and every range built for a value uses the object allocated for it, so
\* two ranges built for the same value share one object.
C3_OneDecorationPerValue ==
    /\ \A i, j \in 1..Len(heap) : heap[i].key = heap[j].key => i = j
    /\ \A r \in AllRanges : heap[r.deco].key = r.value
    /\ \A r1, r2 \in AllRanges : r1.value = r2.value => r1.deco = r2.deco

\* C3 witness: two rebuild passes, one committed and one queued, produced a
\* token with the same value and use the same object.
C3_Witness ==
    /\ lastTr.kind = "rebuild"
    /\ pending # <<>>
    /\ \E r1 \in lastTr.entry.replace : \E r2 \in Head(pending).replace :
          r1.value = r2.value /\ r1.deco = r2.deco

\* C10 (as claimed): when a build or compute throws, the plugin stays
\* loaded and the pass queues the dispatch of an empty decoration set.
C10_FailureIsolated ==
    lastTr.build \in {"build threw", "compute threw"} =>
        /\ active
        /\ pending # <<>>
        /\ pending[Len(pending)].mark = {}
        /\ pending[Len(pending)].replace = {}

\* ------------------------------------------------------------------------
\* Properties of one annotation through the pure functions (SpecAttr)
\* ------------------------------------------------------------------------

\* The class set and the other attributes that the attributes object of a
\* mark decoration puts on the editor's element.
MarkClasses(obj) ==
    IF CLASS \notin DOMAIN obj \/ obj[CLASS] = NULL THEN {}
    ELSE LET parts == SplitSpaces(obj[CLASS], 1)
         IN {parts[k] : k \in 1..Len(parts)} \ {<<>>}

MarkOthers(obj) == [key \in DOMAIN obj \ {CLASS} |-> obj[key]]

\* The host takes every attribute of the annotation.
AllAccepted == \A k \in 1..Len(annAttrs) : HostAccepts(annAttrs[k])

\* C11 (as claimed): for an annotation whose attributes the host takes, the
\* attributes of the editor's mark decoration stand for the class set and
\* the attributes that tryToReplace leaves on a fresh element: the same
\* classes (both of two class tokens), the same attribute names (a flag
\* counts by its presence) and, for a key/value pair, the value without its
\* quotes.
C11_MarkEqualsApplied ==
    (/\ markAttrs.made
     /\ ~markAttrs.threw
     /\ applied >= 1
     /\ AllAccepted)
        => /\ MarkClasses(markAttrs.attributes) = hostOnce.cls
           /\ DOMAIN MarkOthers(markAttrs.attributes) = DOMAIN hostOnce.attrs
           /\ \A key \in DOMAIN hostOnce.attrs :
                 \/ markAttrs.attributes[key] = NULL
                 \/ markAttrs.attributes[key] = hostOnce.attrs[key]

\* C12: for an annotation whose attributes the host takes, calling
\* tryToReplace a second time with the same attributes on the element the
\* first call left changes neither its class set nor its attributes.
C12_ApplyTwiceIsOnce ==
    (applied = 2 /\ annAttrs # <<>> /\ AllAccepted)
        => /\ host.cls = hostOnce.cls
           /\ DOMAIN host.attrs = DOMAIN hostOnce.attrs
           /\ \A key \in DOMAIN host.attrs : host.attrs[key] = hostOnce.attrs[key]

\* An annotation with classes and a key/value pair has been applied twice.
C12_Witness ==
    /\ applied = 2
    /\ AllAccepted
    /\ Cardinality(host.cls) = 1
    /\ \E key \in DOMAIN host.attrs : host.attrs[key] = <<"v", " ", "w">>

\* The split that C13 describes: at every whitespace character that is not
\* between a quote character and the next occurrence of the same character.
RECURSIVE ClaimedSplit(_, _, _)
ClaimedSplit(str, k, start) ==
    IF k > Len(str) THEN <<SubSeq(str, start, Len(str))>>
    ELSE IF IsQuote(str[k]) /\ FirstIn(str, k + 1, {str[k]}) <= Len(str)
    THEN ClaimedSplit(str, FirstIn(str, k + 1, {str[k]}) + 1, start)
    ELSE IF IsWhite(str[k])
    THEN <<SubSeq(str, start, k - 1)>> \o ClaimedSplit(str, k + 1, k + 1)
    ELSE ClaimedSplit(str, k + 1, start)

NotEmptyNorQuote(t) == t # <<>> /\ t # <<DQ>> /\ t # <<SQ>> /\ t # <<BQ>>

ClaimedUnits(str) == SelectSeq(ClaimedSplit(str, 1, 1), NotEmptyNorQuote)

\* C13 (as claimed): getAttrs returns one token per unit of the inner text,
\* the units being the pieces between the whitespace characters that are
\* not inside a pair of single, double or back-tick quotes, without the
\* empty pieces and without the pieces that are one quote character of any
\* of the three kinds; so k="v w" f gives the pair (k, "v w") and the flag
\* f, also after another token and with back-ticks.
C13_SplitsOutsideQuotes ==
    annStep = "tokens"
        => /\ Len(annAttrs) = Len(ClaimedUnits(annText))
           /\ \A k \in 1..Len(annAttrs) :
                 /\ annAttrs[k] = AttrOf(ClaimedUnits(annText)[k])
                 /\ annAttrs[k][1] \notin {<<DQ>>, <<SQ>>, <<BQ>>}

\* A value without the quote characters around it.
Unquoted(value) ==
    IF Len(value) >= 2 /\ IsQuote(value[1]) /\ value[Len(value)] = value[1]
    THEN SubSeq(value, 2, Len(value) - 1)
    ELSE value

\* C14 (as claimed): after tryToReplace, the attribute of a key/value token
\* holds the token's value without the single, double or back-tick quotes
\* around it and with every other character (internal spaces too) as
\* written.
C14_ValueWithoutSurroundingQuotes ==
    (applied >= 1 /\ AllAccepted)
        => \A k \in 1..Len(annAttrs) :
              (/\ annAttrs[k][1] # CLASS
               /\ annAttrs[k][2] \notin {NULL, <<>>}
               /\ \A j \in (k + 1)..Len(annAttrs) :
                     annAttrs[j][1] # annAttrs[k][1])
                  => hostOnce.attrs[annAttrs[k][1]] = Unquoted(annAttrs[k][2])

\* The whitespace-separated units of an inner text that begin with ".", and
\* the class tokens of a getAttrs result, both in source order.
IsDotUnit(u) == u # <<>> /\ u[1] = "."
DotUnits(str) == SelectSeq(SplitSpaces(str, 1), IsDotUnit)
IsClassPair(kv) == kv[1] = CLASS
ClassPairs(attributes) == SelectSeq(attributes, IsClassPair)

\* C15 (as claimed): every whitespace-separated unit that begins with "."
\* gives one class token named by the unit without the dot, in source
\* order, and once tryToReplace has applied the attributes each of these
\* names is in the class set of the element, whatever the order of the
\* units.
C15_ClassPerDotUnit ==
    /\ annStep = "tokens"
          => /\ Len(ClassPairs(annAttrs)) = Len(DotUnits(annText))
             /\ \A k \in 1..Len(ClassPairs(annAttrs)) :
                   ClassPairs(annAttrs)[k][2] = Tail(DotUnits(annText)[k])
    /\ (applied >= 1 /\ AllAccepted)
          => \A k \in 1..Len(DotUnits(annText)) :
                Tail(DotUnits(annText)[k]) \in hostOnce.cls

\* The fragments of the inner text (one per token) that hold "=" after a
\* key that is not empty and do not begin with ".".
IsKeyValueUnit(u) ==
    /\ u[1] # "."
    /\ FirstIn(u, 1, {"="}) \in 2..Len(u)

\* C16 (as claimed): a unit with "=" after a non-empty key gives the token
\* whose key is the text before the first "=" and whose value is all the
\* text after the first "=", further "=" included: a=b=c gives (a, b=c).
C16_SplitsAtFirstEquals ==
    annStep = "tokens"
        => \A k \in 1..Len(Fragments(annText)) :
              IsKeyValueUnit(Fragments(annText)[k])
                  => annAttrs[k] =
                        <<SubSeq(Fragments(annText)[k], 1,
                                 FirstIn(Fragments(annText)[k], 1, {"="}) - 1),
                          Rest(Fragments(annText)[k],
                               FirstIn(Fragments(annText)[k], 1, {"="}))>>

\* ------------------------------------------------------------------------
\* Properties of the state field's update (Spec)
\* ------------------------------------------------------------------------

\* C17 (as claimed): after the transaction that carries a rebuild result,
\* the committed set holds every mark range that rebuild built, and every
\* mark range it holds is one of them.
C17_MarksOfRebuildCommitted ==
    lastTr.kind = "rebuild"
        => /\ lastTr.entry.mark \subseteq field
           /\ \A r \in field :
                 heap[r.deco].type = "mark" => r \in lastTr.entry.mark

\* The change set of a step, from the documents before and after it (the
\* edits are the insertion and the deletion of the first line).
ChangeOf(d, d2) ==
    IF Len(d2) = Len(d) + 1
    THEN [at |-> 0, del |-> 0, ins |-> Len(d2[1].text) + 1]
    ELSE IF Len(d2) + 1 = Len(d)
    THEN [at |-> 0, del |-> Len(d[1].text) + 1, ins |-> 0]
    ELSE NoChange

ReplaceRanges(deco, hp) == {r \in deco : hp[r.deco].type = "replace"}

\* The ranges of a set whose annotated span no range of the selection
\* touches.
Untouched(deco, ranges) == {r \in deco : ~SelectionTouches(ranges, r.span)}

\* The replace ranges a step's transaction carries: those of the rebuild
\* result it dispatches, none for a transaction without effects.
NewlyBuilt(tr) == IF tr.kind = "rebuild" THEN tr.entry.replace ELSE {}

\* C18 (as claimed): after every transaction, with or without a rebuild
\* result, the committed replace ranges are the previous replace ranges
\* mapped through the changes whose annotated span the new selection does
\* not touch, together with the newly built replace ranges whose annotated
\* span the new selection does not touch.
C18_ReplaceIsFilteredUnion ==
    [][ReplaceRanges(field', heap') =
           Untouched(ReplaceRanges(MapSet(field, heap, ChangeOf(doc, doc')),
                                   heap), sel')
               \cup Untouched(NewlyBuilt(lastTr'), sel')]_vars

\* C19: a transaction that carries neither effect (an edit, a selection
\* change, a scroll) commits the previous set mapped through its changes:
\* no range is added and none is dropped for the selection; without
\* changes the set is the previous one.
C19_NoEffectOnlyMaps ==
    [][lastTr'.kind = "user"
          => /\ field' = MapSet(field, heap, ChangeOf(doc, doc'))
             /\ doc' = doc => field' = field]_vars

\* A transaction without effects has run and left a replace range committed
\* whose annotated span the new selection touches.
C19_Witness ==
    /\ lastTr.kind = "user"
    /\ \E r \in field : SelectionTouches(sel, r.span)

\* The visible syntax tokens of the document that yield an annotation match.
MatchingTokens ==
    {k \in 1..Len(doc) :
        /\ k <= vpLines
        /\ doc[k].props = "fmt"
        /\ END_RE(doc[k].text, 1) # NoMatch}

\* C20 (as claimed): when build has handed its tokens on, then for every
\* syntax token from..to that yields an annotation match there is exactly
\* one mark range from..to and exactly one replace range, which covers
\* exactly the text from the opening to the closing brace: it starts at
\* from plus the index of the opening brace and ends at from plus the index
\* just past the closing brace, so that
\* 0 <= from <= replace.from <= replace.to <= to.
C20_ReplaceSpansBraces ==
    lastTr.build = "dispatch"
        => \A k \in MatchingTokens :
              /\ Cardinality({r \in pending[Len(pending)].mark :
                                 /\ r.from = TokenFrom(doc, k)
                                 /\ r.to = TokenTo(doc, k)}) = 1
              /\ Cardinality({r \in pending[Len(pending)].replace :
                                 r.span = [from |-> TokenFrom(doc, k),
                                           to |-> TokenTo(doc, k)]}) = 1
              /\ \A r \in pending[Len(pending)].replace :
                    r.span = [from |-> TokenFrom(doc, k),
                              to |-> TokenTo(doc, k)]
                        => /\ r.from = TokenFrom(doc, k)
                                          + END_RE(doc[k].text, 1).index - 1
                           /\ r.to = TokenFrom(doc, k)
                                        + END_RE(doc[k].text, 1).last
                           /\ 0 <= TokenFrom(doc, k)
                           /\ TokenFrom(doc, k) <= r.from
                           /\ r.from <= r.to
                           /\ r.to <= TokenTo(doc, k)

\* ------------------------------------------------------------------------
\* Properties of one call of build or rangesInclude (SpecFn)
\* ------------------------------------------------------------------------

\* The syntax token a build token was pushed for: its from..to for a mark
\* token, its loc for a replace token.
TokenSpan(t) ==
    IF t.type = "replace" THEN t.loc ELSE [from |-> t.from, to |-> t.to]

Skipped(line) == line.props \in {"code", "none"}

\* C21: build pushes no mark token and no replace token for a syntax token
\* that is classified as inside a code block or has no classification,
\* whatever its text; a view of such tokens only gives no token at all and
\* no exception.
C21_CodeAndUntaggedSkipped ==
    (fnCall.fn = "build" /\ fnCall.done)
        => /\ \A k \in 1..Len(fnCall.d) :
                 Skipped(fnCall.d[k])
                     => \A i \in 1..Len(fnCall.tokens.tokens) :
                           TokenSpan(fnCall.tokens.tokens[i]) #
                               [from |-> TokenFrom(fnCall.d, k),
                                to |-> TokenTo(fnCall.d, k)]
           /\ (\A k \in 1..Len(fnCall.d) : Skipped(fnCall.d[k]))
                 => fnCall.tokens = [threw |-> FALSE, tokens |-> <<>>]

\* build has run on a view whose first token is an annotation inside a code
\* block and whose second is the same annotation without classification.
C21_Witness ==
    /\ fnCall.fn = "build"
    /\ fnCall.done
    /\ fnCall.visible = 2
    /\ fnCall.d = <<[text |-> <<"{", ".", "a", "}">>, props |-> "code"],
                    [text |-> <<"{", ".", "a", "}">>, props |-> "none"]>>

\* C22: rangesInclude answers true exactly when one of the ranges, as the
\* closed interval from its from to its to, meets the closed interval
\* from..to; a caret at from or at to is included and an empty list of
\* ranges gives false.
C22_RangesIncludeIsIntersection ==
    (fnCall.fn = "rangesInclude" /\ fnCall.done)
        => /\ fnCall.included
                 <=> \E k \in 1..Len(fnCall.ranges) :
                        /\ fnCall.ranges[k].from <= fnCall.to
                        /\ fnCall.ranges[k].to >= fnCall.from
           /\ (\E k \in 1..Len(fnCall.ranges) :
                  /\ fnCall.ranges[k].from = fnCall.ranges[k].to
                  /\ fnCall.ranges[k].from \in {fnCall.from, fnCall.to})
                 => fnCall.included
           /\ fnCall.ranges = <<>> => ~fnCall.included

\* rangesInclude has answered true for a single caret at the end of a span
\* that is not empty.
C22_Witness ==
    /\ fnCall.fn = "rangesInclude"
    /\ fnCall.done
    /\ fnCall.included
    /\ fnCall.from < fnCall.to
    /\ fnCall.ranges = <<[from |-> fnCall.to, to |-> fnCall.to]>>

\* The first text-node child whose own content contains the text, or 0.
TextNodeHolding(kids, original) ==
    MinOf({k \in 1..Len(kids) :
              kids[k].el = 0 /\ IndexOf(kids[k].data, original) # 0}
          \cup {Len(kids) + 1}) % (Len(kids) + 1)

\* The target C23 names for the inline branch on element el of d, given the
\* text node t that contains the match.
ClaimedInlineTarget(d, el, t) ==
    IF t > 1 /\ d[el].kids[t - 1].el # 0
           /\ ~hasClass(d[d[el].kids[t - 1].el], COLLAPSE)
           /\ d[d[el].kids[t - 1].el].tag # "br"
    THEN d[el].kids[t - 1].el
    ELSE el

\* The inline match of an element's own text.
InlineOriginal(d, el) ==
    Matched(getTopLevelText(d, el), BASE_RE(getTopLevelText(d, el), 1))

\* C23 (as claimed): after an invocation that took the inline branch, the
\* binding's element is the element child just before the text node that
\* contains the matched annotation, or the element itself when that child
\* is a collapse indicator or a line break or when no element is just
\* before that text node; also when an earlier text node of the element
\* does not contain the annotation.
C23_InlineTargetPrecedesMatch ==
    (/\ last.kind = "inline"
     /\ TextNodeHolding(last.before[last.el].kids,
                        InlineOriginal(last.before, last.el)) # 0)
        => LastBinding.element =
              ClaimedInlineTarget(
                  last.before, last.el,
                  TextNodeHolding(last.before[last.el].kids,
                                  InlineOriginal(last.before, last.el)))

\* C24 (as claimed): after an invocation that took the inline branch and
\* whose attributes (at least one) were all applied, the element's own text
\* is its previous own text without the first match, wherever the match
\* lies among the text nodes, and every child element is where it was.
C24_InlineMatchRemoved ==
    (/\ last.kind = "inline"
     /\ LastBinding.element # 0
     /\ LastBinding.attributes # <<>>
     /\ FirstRejected(LastBinding.attributes) > Len(LastBinding.attributes))
        => /\ getTopLevelText(dom, last.el) =
                 RemoveFirst(getTopLevelText(last.before, last.el),
                             InlineOriginal(last.before, last.el))
           /\ Len(dom[last.el].kids) = Len(last.before[last.el].kids)
           /\ \A k \in 1..Len(dom[last.el].kids) :
                 dom[last.el].kids[k].el = last.before[last.el].kids[k].el

\* The opening braces of a text: each annotation written in it has one.
IsOpenBrace(c) == c = "{"
BraceCount(s) == Len(SelectSeq(s, IsOpenBrace))

\* The classes the attributes of a binding stand for.
ClassesOf(attributes) ==
    UNION {ClassTokens(attributes[k]) : k \in 1..Len(attributes)}

\* C29: one invocation of recurseAndParseElements on an element pushes at
\* most one binding (for the block trailer of the own text if it has one,
\* else for its first annotation), takes at most one annotation out of the
\* element's own text and adds no class to any element other than the
\* classes of that one binding on its target, so a second annotation in
\* the same own text stays as text and is not applied; the element is
\* visited again exactly when it is a list item whose own text has a block
\* trailer.
C29_OneAnnotationPerVisit ==
    [][status' # "overflow"
          => /\ Len(bindings') <= Len(bindings) + 1
             /\ Len(bindings') > Len(bindings)
                   => bindings'[Len(bindings')].text =
                         IF BLOCK_RE(getTopLevelText(dom, Head(stack).el))
                                # NoMatch
                         THEN BLOCK_RE(getTopLevelText(dom,
                                                       Head(stack).el)).group
                         ELSE BASE_RE(getTopLevelText(dom, Head(stack).el),
                                      1).group
             /\ BraceCount(getTopLevelText(dom', Head(stack).el))
                    >= BraceCount(getTopLevelText(dom, Head(stack).el)) - 1
             /\ \A e \in DOMAIN dom :
                   dom'[e].cls \ dom[e].cls \subseteq
                       IF /\ Len(bindings') > Len(bindings)
                          /\ bindings'[Len(bindings')].element = e
                       THEN ClassesOf(bindings'[Len(bindings')].attributes)
                       ELSE {}
             /\ (/\ stack' # <<>>
                 /\ Head(stack') = [el |-> Head(stack).el,
                                    depth |-> Head(stack).depth + 1])
                    <=> /\ dom[Head(stack).el].tag = "li"
                        /\ BLOCK_RE(getTopLevelText(dom, Head(stack).el))
                               # NoMatch]_vars

\* An invocation on an element that is no list item and has two annotations
\* in its own text has applied one of them and left the other as text.
C29_Witness ==
    /\ last.kind = "inline"
    /\ last.before[last.el].tag # "li"
    /\ BraceCount(getTopLevelText(last.before, last.el)) = 2
    /\ BraceCount(getTopLevelText(dom, last.el)) = 1
    /\ dom[LastBinding.element].cls # last.before[LastBinding.element].cls
    /\ status = "returned"

C25_RebuildOnEveryTrigger ==
    /\ lastTr.kind \in {"init", "user"} => lastTr.build # "none"
    /\ lastTr.kind = "rebuild" => lastTr.build = "none"

\* What a rebuild started now, from the current document, viewport and
\* selection, would queue for its commit.
LatestRebuild == RunBuild(doc, sel, vpLines, decoCache, heap, <<>>).pending

\* C26 (as claimed): after the commit of a rebuild the field holds no range
\* that this rebuild did not compute, and after the last pending commit the
\* committed rebuild is the one of the latest document and selection.
C26_LastCommitIsLatestRebuild ==
    lastTr.kind = "rebuild" =>
        /\ field \subseteq lastTr.entry.mark \cup lastTr.entry.replace
        /\ pending = <<>> => LatestRebuild = <<lastTr.entry>>

\* The commits under the scheduling of the host: the continuation of
\* updateDecos is a microtask, which runs once the current task has ended.
SpecFair == Spec /\ WF_vars(Dispatch)

\* Once the user events have ended, the pending commits drain.
PendingDrains == (<>[][Dispatch]_vars) => <>[](pending = <<>>)

\* The transaction a rebuild dispatches changes neither document, selection
\* nor viewport and starts no rebuild, it only takes its commit off the
\* pending ones; every user event starts exactly one rebuild.
OneRebuildPerTrigger ==
    [][/\ lastTr'.kind = "rebuild" =>
            /\ UNCHANGED <<doc, sel, vpLines>>
            /\ lastTr'.build = "none"
            /\ Len(pending') = Len(pending) - 1
       /\ lastTr'.kind = "user" =>
            /\ lastTr'.build # "none"
            /\ Len(pending') \in {Len(pending), Len(pending) + 1}
            /\ Len(pending') = Len(pending) <=> lastTr'.build # "dispatch"]_vars

\* C27 (as claimed): the commit of a rebuild starts no rebuild, so the
\* rebuilds are as many as the user events plus the initial one, and once
\* the user events have ended no commit stays pending.
C27_RebuildsEqualTriggersAndDrain == OneRebuildPerTrigger /\ PendingDrains

\* C28 (as claimed): a rebuild that was started has queued its one
\* transaction, and the commit of a rebuild that found no annotation leaves
\* the committed set empty.
C28_OneTransactionPerRebuild ==
    /\ lastTr.build # "none" => lastTr.build = "dispatch"
    /\ (/\ lastTr.kind = "rebuild"
        /\ lastTr.entry.mark = {}
        /\ lastTr.entry.replace = {}) => field = {}

====
